---------------------------- MODULE Spec2Model ----------------------------
(***************************************************************************)
(* Model of Old Maybe_final/Archive/train.py: target construction,         *)
(* grouped cross-validation with the two prediction stages, the quantity   *)
(* safeguard, the ranking metrics, the feature-size sweep and the final    *)
(* full-data refit.                                                        *)
(*                                                                         *)
(* Conventions.  Python's 0-based row / label / fold indices are 1-based   *)
(* here.  Part identifiers are the integers 1..NLabels (their sorted order *)
(* is the numeric order).  Probabilities are the levels 0..MaxProb (level  *)
(* p stands for p / MaxProb).  Metric values are exact rationals <<n, d>>  *)
(* in lowest terms.  What the fitted library models (LinearSVC,            *)
(* CalibratedClassifierCV) return is a nondeterministic choice over the    *)
(* values their contract allows.                                           *)
(*                                                                         *)
(* K_FOLDS and TOP_K are 5 in train.py (lines 57-58); the model runs them  *)
(* scaled down, as bounds, so that all folds and all rankings can be       *)
(* enumerated.                                                             *)
(***************************************************************************)
EXTENDS Integers, Sequences, FiniteSets, TLC

\* ------------------------------------------------------------------ bounds
NRows == 4          \* rows of the dataset in the cross-validation runs
NGroups == 2        \* work-order ids are 1..NGroups
NLabels == 2        \* part identifiers are 1..NLabels
MaxQty == 2         \* well-formed quantities are 1..MaxQty
MaxProb == 1        \* probability levels 0..MaxProb
K_FOLDS == 2        \* train.py:57 (5), scaled
TOP_K == 1          \* train.py:58 (5), scaled
NRawRows == 2       \* rows of the raw CSV in the target-construction runs
MaxListLen == 2     \* longest list literal in a raw CSV cell
MaxSteps == 2       \* longest configured sweep list
MaxSetting == 2     \* feature-dimensionality settings are 1..MaxSetting

\* ----------------------------------------------------------------- helpers
Range(s) == {s[i] : i \in 1..Len(s)}

Min(a, b) == IF a <= b THEN a ELSE b

Max(a, b) == IF a >= b THEN a ELSE b

RECURSIVE GCD(_, _)
GCD(a, b) == IF b = 0 THEN a ELSE GCD(b, a % b)

\* the rational n / d (d > 0, n >= 0) in lowest terms
Rat(n, d) == LET g == GCD(n, d) IN <<n \div g, d \div g>>

RatAdd(a, b) == Rat(a[1] * b[2] + b[1] * a[2], a[2] * b[2])

RatDiv(a, k) == Rat(a[1], a[2] * k)

RatLeq(a, b) == a[1] * b[2] <= b[1] * a[2]

RECURSIVE RatSum(_)
RatSum(s) == IF s = <<>> THEN <<0, 1>> ELSE RatAdd(s[1], RatSum(Tail(s)))

\* np.mean of a non-empty list of scores
Mean(s) == RatDiv(RatSum(s), Len(s))

\* the elements of a finite set of integers in increasing order
RECURSIVE SortedSeq(_)
SortedSeq(S) ==
    IF S = {} THEN <<>>
    ELSE LET m == CHOOSE x \in S : \A y \in S : x <= y
         IN <<m>> \o SortedSeq(S \ {m})

\* all sequences over S of length at most n
SeqsUpTo(S, n) == UNION {[1..k -> S] : k \in 0..n}

\* ------------------------------------------------------------------- state
VARIABLES
    pc,             \* position in main / cross_validate_transformed / refit
    err,            \* the exception that ended the run, "" while running
    cells,          \* the CSV rows as read: group id and the two raw list cells
    df,             \* the parsed rows: group, label list, quantity list
    raw_steps,      \* RAW_STEPS, the configured sweep list
    vocab_size,     \* size of the full n-gram vocabulary
    feature_steps,  \* the settings the sweep runs
    mfIdx,          \* position of the sweep loop in feature_steps
    records,        \* one record of fold-averaged validation metrics per setting
    best_mf,        \* the selected setting (0 before selection)
    exported,       \* the settings train_and_export_final_model exported at
    classes,        \* mlb.classes_
    Y_bin,          \* presence matrix
    Y_cnt,          \* quantity matrix
    folds,          \* the (tr, te) pairs GroupKFold.split yields
    fold,           \* current fold, 1..K_FOLDS
    lbl,            \* current label of the per-label loops
    proba,          \* shared probability matrix
    qty_pred,       \* shared quantity-prediction matrix
    train_metrics,  \* list of (fold, metrics)
    val_metrics,    \* list of (fold, metrics)
    calib,          \* calibration attempts made for the current label
    class_clfs,     \* refit: label -> kind of fitted calibrator
    qty_clfs,       \* refit: label -> quantity model
    probaLog,       \* history: per cell of proba, the folds that wrote it, in order
    qtyLog,         \* history: per cell of qty_pred, the folds that wrote it, in order
    lastQ           \* history: the quantity model Stage 2 last built

vars == <<pc, err, cells, df, raw_steps, vocab_size, feature_steps, mfIdx,
          records, best_mf, exported, classes, Y_bin, Y_cnt, folds, fold, lbl,
          proba, qty_pred, train_metrics, val_metrics, calib, class_clfs,
          qty_clfs, probaLog, qtyLog, lastQ>>

dataVars == <<cells, df, raw_steps, vocab_size>>

sweepVars == <<feature_steps, mfIdx, records, best_mf, exported>>

targetVars == <<classes, Y_bin, Y_cnt>>

cvVars == <<folds, fold, lbl, proba, qty_pred, train_metrics, val_metrics,
            calib, probaLog, qtyLog, lastQ>>

refitVars == <<class_clfs, qty_clfs>>

Rows == 1..Len(df)

L == Len(classes)

Zeros == [i \in Rows |-> [l \in 1..L |-> 0]]

NoWrites == [i \in Rows |-> [l \in 1..L |-> <<>>]]

NoQ == [kind |-> "none"]

\* ------------------------------------------------- parsing (train.py:127-133)
\* A raw cell is a list literal, a scalar literal, or text that does not parse.
parse_part_list(cell) ==
    CASE cell.kind = "list" -> cell.val
      [] cell.kind = "scalar" -> <<cell.val>>
      [] OTHER -> <<>>

\* ------------------------------------- target construction (train.py:153-161)
\* MultiLabelBinarizer.fit: the sorted distinct labels of all rows
mlb_classes(d) == SortedSeq(UNION {Range(d[i].labels) : i \in 1..Len(d)})

\* MultiLabelBinarizer.transform of one row
mlb_row(cls, row) ==
    [l \in 1..Len(cls) |-> IF cls[l] \in Range(row.labels) THEN 1 ELSE 0]

\* dict(zip(labels, qtys)).get(c, 0): zip stops at the shorter list and a
\* later pair replaces an earlier one with the same key
mapping_get(row, c) ==
    LET n == Min(Len(row.labels), Len(row.qtys))
        P == {p \in 1..n : row.labels[p] = c}
    IN IF P = {} THEN 0
       ELSE row.qtys[CHOOSE p \in P : \A q \in P : q <= p]

cnt_vec(cls, row) == [l \in 1..Len(cls) |-> mapping_get(row, cls[l])]

make_targets(d) ==
    LET cls == mlb_classes(d)
    IN [classes |-> cls,
        Y_bin |-> [i \in 1..Len(d) |-> mlb_row(cls, d[i])],
        Y_cnt |-> [i \in 1..Len(d) |-> cnt_vec(cls, d[i])]]

\* ------------------------------------------------------ ranking (np.argsort)
\* np.argsort(row)[-k:] as a set: the k last positions of the ascending order,
\* equal values kept in index order
topk(row, k) ==
    LET n == Len(row)
        Above(m, j) == row[m] > row[j] \/ (row[m] = row[j] /\ m > j)
    IN {j \in 1..n : Cardinality({m \in 1..n : Above(m, j)}) < k}

\* set(np.where(y_true[i] == 1)[0])
true_set(yrow) == {l \in 1..Len(yrow) : yrow[l] = 1}

RECURSIVE SumSeq(_)
SumSeq(s) == IF s = <<>> THEN 0 ELSE s[1] + SumSeq(Tail(s))

\* M[S] for an index array S: the rows of M at the indices of S, in order
SubRows(M, S) == LET idx == SortedSeq(S) IN [n \in 1..Len(idx) |-> M[idx[n]]]

\* ------------------------------------------------- metrics (train.py:78-109)
recall_at_k(y_true, p, k) ==
    LET all == [i \in 1..Len(y_true) |-> i]
        kept == SelectSeq(all, LAMBDA i : true_set(y_true[i]) # {})
        scores == [n \in 1..Len(kept) |->
                     LET i == kept[n]
                     IN Rat(Cardinality(true_set(y_true[i]) \cap topk(p[i], k)),
                            Cardinality(true_set(y_true[i])))]
    IN IF scores = <<>> THEN <<0, 1>> ELSE Mean(scores)

\* (mutant) rows with empty truth left out of the average, as in recall_at_k
partial_coverage_score_nonempty(y_true, p, k) == recall_at_k(y_true, p, k)

partial_coverage_score(y_true, p, k) ==
    LET scores == [i \in 1..Len(y_true) |->
                     Rat(Cardinality(true_set(y_true[i]) \cap topk(p[i], k)),
                         Max(1, SumSeq(y_true[i])))]
    IN Mean(scores)

\* evaluate (train.py:284-296), the two metrics that are compared below
evaluate(y_true, p) ==
    [recall |-> recall_at_k(y_true, p, TOP_K),
     partial_cov |-> partial_coverage_score(y_true, p, TOP_K)]

\* (mutant) the safeguard taken over the k lowest-ranked labels
apply_quantity_safeguard_low(p, q, k) ==
    [i \in DOMAIN q |->
        [l \in DOMAIN q[i] |->
            IF l \notin topk(p[i], Len(p[i]) - k) /\ q[i][l] = 0 THEN 1 ELSE q[i][l]]]

\* ------------------------------------------- safeguard (train.py:189-195)
apply_quantity_safeguard(p, q, k) ==
    [i \in DOMAIN q |->
        [l \in DOMAIN q[i] |->
            IF l \in topk(p[i], k) /\ q[i][l] = 0 THEN 1 ELSE q[i][l]]]

\* ------------------------------------------ GroupKFold (train.py:203, 209)
unique_groups(d) == SortedSeq({d[i].group : i \in 1..Len(d)})

\* np.unique(..., return_inverse=True): position of row i's group
group_idx(d, i) ==
    LET u == unique_groups(d) IN CHOOSE g \in 1..Len(u) : u[g] = d[i].group

n_samples_per_group(d) ==
    [g \in 1..Len(unique_groups(d)) |->
        Cardinality({i \in 1..Len(d) : group_idx(d, i) = g})]

\* np.argsort(n_samples_per_group)[::-1]: the groups by decreasing size; the
\* order among groups of equal size is the sort's choice
group_orders(d) ==
    LET n == Len(unique_groups(d))
        cnt == n_samples_per_group(d)
    IN {o \in [1..n -> 1..n] :
          /\ \A a, b \in 1..n : a # b => o[a] # o[b]
          /\ \A a, b \in 1..n : a < b => cnt[o[a]] >= cnt[o[b]]}

\* np.argmin: the first position holding the minimum
argmin(w) == CHOOSE f \in DOMAIN w :
                /\ \A g \in DOMAIN w : w[f] <= w[g]
                /\ \A g \in DOMAIN w : w[g] = w[f] => f <= g

\* the greedy assignment of groups to the lightest fold
RECURSIVE group_to_fold(_, _, _, _, _)
group_to_fold(cnt, order, pos, perFold, g2f) ==
    IF pos > Len(order) THEN g2f
    ELSE LET lightest == argmin(perFold)
         IN group_to_fold(cnt, order, pos + 1,
                [perFold EXCEPT ![lightest] = @ + cnt[order[pos]]],
                [g2f EXCEPT ![order[pos]] = lightest])

\* (mutant) rows dealt to the folds by position, whatever their group
test_indices_by_row(d, g2f, f) == {i \in 1..Len(d) : ((i - 1) % K_FOLDS) + 1 = f}

\* the rows whose group was assigned to fold f
test_indices(d, g2f, f) == {i \in 1..Len(d) : g2f[group_idx(d, i)] = f}

\* the (train, test) pairs split yields, for one order of the groups
GroupKFold_split(d, k, order) ==
    LET n == Len(unique_groups(d))
        g2f == group_to_fold(n_samples_per_group(d), order, 1,
                             [f \in 1..k |-> 0], [g \in 1..n |-> 1])
    IN [f \in 1..k |->
          [te |-> test_indices(d, g2f, f),
           tr |-> (1..Len(d)) \ test_indices(d, g2f, f)]]

\* (mutant) no check of the number of groups
split_fails_never(d, k) == FALSE

\* split raises ValueError when n_splits exceeds the samples or the groups
split_fails(d, k) == k > Len(d) \/ k > Len(unique_groups(d))

\* ------------------------------------------------------------ initial states
RECURSIVE Pow(_, _)
Pow(b, e) == IF e = 0 THEN 1 ELSE b * Pow(b, e - 1)

\* a well-formed parsed row: distinct labels in increasing order, one positive
\* quantity per label
Truths ==
    UNION {LET ls == SortedSeq(S)
           IN {[labels |-> ls, qtys |-> q] : q \in [1..Len(ls) -> 1..MaxQty]}
           : S \in SUBSET (1..NLabels)}

RowCode(r) ==
    SumSeq([p \in 1..Len(r.labels) |->
               r.qtys[p] * Pow(MaxQty + 1, r.labels[p] - 1)])

\* One dataset per class of datasets equal up to the order of the rows and
\* the naming of the groups: group ids ascend from 1 without gaps, and rows
\* of one group are ordered by content.
Canonical(d) ==
    /\ d[1].group = 1
    /\ \A i \in 1..(Len(d) - 1) :
          \/ d[i + 1].group = d[i].group + 1
          \/ d[i + 1].group = d[i].group /\ RowCode(d[i]) <= RowCode(d[i + 1])

ParsedRows ==
    {[group |-> g, labels |-> t.labels, qtys |-> t.qtys] :
        g \in 1..NGroups, t \in Truths}

Datasets == {d \in [1..NRows -> ParsedRows] : Canonical(d)}

NoCells == <<>>

InitRun ==
    /\ err = ""
    /\ feature_steps = <<>>
    /\ mfIdx = 0
    /\ records = <<>>
    /\ best_mf = 0
    /\ exported = <<>>
    /\ classes = <<>>
    /\ Y_bin = <<>>
    /\ Y_cnt = <<>>
    /\ folds = <<>>
    /\ fold = 0
    /\ lbl = 0
    /\ proba = <<>>
    /\ qty_pred = <<>>
    /\ train_metrics = <<>>
    /\ val_metrics = <<>>
    /\ calib = <<>>
    /\ class_clfs = <<>>
    /\ qty_clfs = <<>>
    /\ probaLog = <<>>
    /\ qtyLog = <<>>
    /\ lastQ = NoQ

\* main after loading: any dataset, one configured setting below the vocabulary
Init ==
    /\ InitRun
    /\ pc = "steps"
    /\ cells = NoCells
    /\ df \in Datasets
    /\ raw_steps = <<1>>
    /\ vocab_size = 2

\* ------------------------------------------------------ main (train.py:409-490)
\* step 1 (lines 411-414): both list columns go through parse_part_list
MainLoad ==
    /\ pc = "load"
    /\ df' = [i \in 1..Len(cells) |->
                [group |-> cells[i].group,
                 labels |-> parse_part_list(cells[i].target),
                 qtys |-> parse_part_list(cells[i].quantity)]]
    /\ pc' = "steps"
    /\ UNCHANGED <<err, cells, raw_steps, vocab_size, sweepVars, targetVars,
                   cvVars, refitVars>>

\* step 2 (lines 416-425): only the settings below the vocabulary size are kept
MainSteps ==
    /\ pc = "steps"
    /\ feature_steps' = SelectSeq(raw_steps, LAMBDA s : s < vocab_size)
    /\ mfIdx' = 1
    /\ records' = <<>>
    /\ pc' = "sweep"
    /\ UNCHANGED <<err, dataVars, best_mf, exported, targetVars, cvVars, refitVars>>

\* steps 3a-3c (lines 428-442) of one sweep iteration
SweepIter ==
    /\ pc = "sweep"
    /\ mfIdx <= Len(feature_steps)
    /\ LET t == make_targets(df)
       IN /\ classes' = t.classes
          /\ Y_bin' = t.Y_bin
          /\ Y_cnt' = t.Y_cnt
    /\ pc' = "cv"
    /\ UNCHANGED <<err, dataVars, sweepVars, cvVars, refitVars>>

\* --------------------------- cross_validate_transformed (train.py:198-263)
tr == folds[fold].tr

te == folds[fold].te

\* lines 203-207
CVInit ==
    /\ pc = "cv"
    /\ proba' = Zeros
    /\ qty_pred' = Zeros
    /\ train_metrics' = <<>>
    /\ val_metrics' = <<>>
    /\ probaLog' = NoWrites
    /\ qtyLog' = NoWrites
    /\ pc' = "split"
    /\ UNCHANGED <<err, dataVars, sweepVars, targetVars, folds, fold, lbl, calib,
                   lastQ, refitVars>>

\* line 209, the first step of the fold iterator
CVSplit ==
    /\ pc = "split"
    /\ IF split_fails(df, K_FOLDS)
       THEN /\ pc' = "crashed"
            /\ err' = "ValueError: n_splits"
            /\ UNCHANGED <<folds, fold, lbl>>
       ELSE /\ \E order \in group_orders(df) :
                 folds' = GroupKFold_split(df, K_FOLDS, order)
            /\ fold' = 1
            /\ lbl' = 1
            /\ pc' = "stage1"
            /\ err' = err
    /\ UNCHANGED <<dataVars, sweepVars, targetVars, proba, qty_pred, train_metrics,
                   val_metrics, calib, probaLog, qtyLog, lastQ, refitVars>>

\* np.unique(Y_bin[rows, l])
unique_bin(rows, l) == {Y_bin[i][l] : i \in rows}

\* lines 215-217
Stage1Skip ==
    /\ pc = "stage1"
    /\ lbl <= L
    /\ Cardinality(unique_bin(tr, lbl)) < 2
    /\ lbl' = lbl + 1
    /\ UNCHANGED <<pc, err, dataVars, sweepVars, targetVars, folds, fold, proba,
                   qty_pred, train_metrics, val_metrics, calib, probaLog, qtyLog, lastQ, refitVars>>

\* lines 219-225: base fit, then the cross-validated calibration, which
\* either fits or raises ValueError
Stage1CalibCV ==
    /\ pc = "stage1"
    /\ lbl <= L
    /\ Cardinality(unique_bin(tr, lbl)) >= 2
    /\ calib = <<>>
    /\ \E ok \in BOOLEAN : calib' = <<IF ok THEN "cv_ok" ELSE "cv_fail">>
    /\ UNCHANGED <<pc, err, dataVars, sweepVars, targetVars, folds, fold, lbl,
                   proba, qty_pred, train_metrics, val_metrics, probaLog, qtyLog, lastQ, refitVars>>

\* (mutant) a failing prefit calibration swallowed, the label treated as skipped
Stage1Prefit_swallow ==
    /\ pc = "stage1"
    /\ calib = <<"cv_fail">>
    /\ \E ok \in BOOLEAN :
          IF ok
          THEN /\ calib' = Append(calib, "prefit_ok")
               /\ lbl' = lbl
          ELSE /\ calib' = <<>>
               /\ lbl' = lbl + 1
    /\ UNCHANGED <<pc, err, dataVars, sweepVars, targetVars, folds, fold, proba,
                   qty_pred, train_metrics, val_metrics, probaLog, qtyLog,
                   lastQ, refitVars>>

\* lines 225-227: the except branch; an error raised here is not caught
Stage1Prefit ==
    /\ pc = "stage1"
    /\ calib = <<"cv_fail">>
    /\ \E ok \in BOOLEAN :
          IF ok
          THEN /\ calib' = Append(calib, "prefit_ok")
               /\ UNCHANGED <<pc, err>>
          ELSE /\ calib' = Append(calib, "prefit_fail")
               /\ pc' = "crashed"
               /\ err' = "ValueError: calibration"
    /\ UNCHANGED <<dataVars, sweepVars, targetVars, folds, fold, lbl, proba,
                   qty_pred, train_metrics, val_metrics, probaLog, qtyLog,
                   lastQ, refitVars>>

\* (mutant) in-sample predictions: the fold's training rows are written
WriteProba_train(pred) ==
    LET v == pred[CHOOSE i \in te : TRUE]
    IN /\ proba' = [i \in Rows |-> [l \in 1..L |->
                       IF i \in tr /\ l = lbl THEN v ELSE proba[i][l]]]
       /\ probaLog' = [i \in Rows |-> [l \in 1..L |->
                          IF i \in tr /\ l = lbl THEN Append(probaLog[i][l], fold)
                          ELSE probaLog[i][l]]]

\* proba[te, lbl] = pred, with the history of the write
WriteProba(pred) ==
    /\ proba' = [i \in Rows |-> [l \in 1..L |->
                    IF i \in te /\ l = lbl THEN pred[i] ELSE proba[i][l]]]
    /\ probaLog' = [i \in Rows |-> [l \in 1..L |->
                       IF i \in te /\ l = lbl THEN Append(probaLog[i][l], fold)
                       ELSE probaLog[i][l]]]

\* line 229: proba[te, lbl] = calib.predict_proba(Xt_te)[:, 1]
Stage1Predict ==
    /\ pc = "stage1"
    /\ calib # <<>>
    /\ calib[Len(calib)] \in {"cv_ok", "prefit_ok"}
    /\ \E pred \in [te -> 0..MaxProb] : WriteProba(pred)
    /\ calib' = <<>>
    /\ lbl' = lbl + 1
    /\ UNCHANGED <<pc, err, dataVars, sweepVars, targetVars, folds, fold, qty_pred,
                   train_metrics, val_metrics, qtyLog, lastQ, refitVars>>

\* end of the Stage 1 loop (line 214), start of the Stage 2 loop (line 232)
Stage1Done ==
    /\ pc = "stage1"
    /\ lbl > L
    /\ pc' = "stage2"
    /\ lbl' = 1
    /\ UNCHANGED <<err, dataVars, sweepVars, targetVars, folds, fold, proba,
                   qty_pred, train_metrics, val_metrics, calib, probaLog, qtyLog, lastQ, refitVars>>

\* ---- Stage 2 (lines 232-248)
\* the rows of `rows` where mask = Y_cnt[rows, l] > 0 holds
mask_rows(rows, l) == {i \in rows : Y_cnt[i][l] > 0}

\* np.unique(yq)
uniq_vals(rows, l) == {Y_cnt[i][l] : i \in mask_rows(rows, l)}

\* int(np.bincount(yq).argmax()): the smallest of the most frequent values
bincount_argmax(rows, l) ==
    LET n(v) == Cardinality({i \in mask_rows(rows, l) : Y_cnt[i][l] = v})
    IN CHOOSE v \in uniq_vals(rows, l) :
          \A w \in uniq_vals(rows, l) : n(w) < n(v) \/ (n(w) = n(v) /\ v <= w)

\* (mutant) the sparsity threshold off by one
dummy_fallback_lt2(rows, l) ==
    Cardinality(mask_rows(rows, l)) < 2 \/ Cardinality(uniq_vals(rows, l)) < 2

\* line 237
dummy_fallback(rows, l) ==
    Cardinality(mask_rows(rows, l)) < 3 \/ Cardinality(uniq_vals(rows, l)) < 2

\* line 238
cv_constant(rows, l) ==
    IF Cardinality(mask_rows(rows, l)) = 0 THEN 0 ELSE bincount_argmax(rows, l)

\* DummyClassifier(strategy="constant").predict: the constant for every row
dummy_predict(constant, rows) == [i \in rows |-> constant]

\* qty_pred[te, lbl] = pred, with the history of the write
WriteQty(pred) ==
    /\ qty_pred' = [i \in Rows |-> [l \in 1..L |->
                       IF i \in te /\ l = lbl THEN pred[i] ELSE qty_pred[i][l]]]
    /\ qtyLog' = [i \in Rows |-> [l \in 1..L |->
                     IF i \in te /\ l = lbl THEN Append(qtyLog[i][l], fold)
                     ELSE qtyLog[i][l]]]

\* lines 237-243
Stage2Dummy ==
    /\ pc = "stage2"
    /\ lbl <= L
    /\ dummy_fallback(tr, lbl)
    /\ LET constant == cv_constant(tr, lbl)
           pred == dummy_predict(constant, te)
       IN /\ WriteQty(pred)
          /\ lastQ' = [kind |-> "constant", constant |-> constant, fold |-> fold,
                       lbl |-> lbl, pred |-> pred]
    /\ lbl' = lbl + 1
    /\ UNCHANGED <<pc, err, dataVars, sweepVars, targetVars, folds, fold, proba,
                   train_metrics, val_metrics, calib, probaLog, refitVars>>

\* lines 245-248: a LinearSVC over the observed quantities predicts one of them
Stage2Fit ==
    /\ pc = "stage2"
    /\ lbl <= L
    /\ ~dummy_fallback(tr, lbl)
    /\ \E pred \in [te -> uniq_vals(tr, lbl)] :
          /\ WriteQty(pred)
          /\ lastQ' = [kind |-> "fitted", constant |-> 0, fold |-> fold,
                       lbl |-> lbl, pred |-> pred]
    /\ lbl' = lbl + 1
    /\ UNCHANGED <<pc, err, dataVars, sweepVars, targetVars, folds, fold, proba,
                   train_metrics, val_metrics, calib, probaLog, refitVars>>

\* line 251: the safeguard runs over the whole shared matrices
Stage2Safeguard ==
    /\ pc = "stage2"
    /\ lbl > L
    /\ qty_pred' = apply_quantity_safeguard(proba, qty_pred, TOP_K)
    /\ qtyLog' = [i \in Rows |-> [l \in 1..L |->
                     IF qty_pred'[i][l] # qty_pred[i][l] THEN Append(qtyLog[i][l], fold)
                     ELSE qtyLog[i][l]]]
    /\ pc' = "metrics"
    /\ UNCHANGED <<err, dataVars, sweepVars, targetVars, folds, fold, lbl, proba,
                   train_metrics, val_metrics, calib, probaLog, lastQ,
                   refitVars>>

\* lines 253-260, then the next fold or the return (lines 262-263)
FoldMetrics ==
    /\ pc = "metrics"
    /\ train_metrics' = Append(train_metrics,
                           <<fold, evaluate(SubRows(Y_bin, tr), SubRows(proba, tr))>>)
    /\ val_metrics' = Append(val_metrics,
                           <<fold, evaluate(SubRows(Y_bin, te), SubRows(proba, te))>>)
    /\ IF fold < K_FOLDS
       THEN /\ fold' = fold + 1
            /\ lbl' = 1
            /\ pc' = "stage1"
       ELSE /\ pc' = "cv_done"
            /\ UNCHANGED <<fold, lbl>>
    /\ UNCHANGED <<err, dataVars, sweepVars, targetVars, folds, proba, qty_pred,
                   calib, probaLog, qtyLog, lastQ, refitVars>>

\* ---- main, steps 3e-3f and 4 (lines 449-488)
\* val_df.mean(): the mean over the folds of each validation metric
mean_val(vm, mf) ==
    [max_features |-> mf,
     recall |-> Mean([f \in 1..Len(vm) |-> vm[f][2].recall]),
     partial_cov |-> Mean([f \in 1..Len(vm) |-> vm[f][2].partial_cov])]

\* lines 449-468; the locals of the finished call are dropped
SweepRecord ==
    /\ pc = "cv_done"
    /\ records' = Append(records, mean_val(val_metrics, feature_steps[mfIdx]))
    /\ mfIdx' = mfIdx + 1
    /\ pc' = "sweep"
    /\ folds' = <<>>
    /\ fold' = 0
    /\ lbl' = 0
    /\ proba' = <<>>
    /\ qty_pred' = <<>>
    /\ train_metrics' = <<>>
    /\ val_metrics' = <<>>
    /\ probaLog' = <<>>
    /\ qtyLog' = <<>>
    /\ lastQ' = NoQ
    /\ UNCHANGED <<err, dataVars, feature_steps, best_mf, exported, targetVars,
                   calib, refitVars>>

\* Series.idxmax: the key of the first record holding the largest recall
idxmax(recs) ==
    LET n == CHOOSE a \in 1..Len(recs) :
                /\ \A b \in 1..Len(recs) : RatLeq(recs[b].recall, recs[a].recall)
                /\ \A b \in 1..(a - 1) : ~RatLeq(recs[a].recall, recs[b].recall)
    IN recs[n].max_features

\* lines 470-488: set_index('max_features') on a frame built from no record
\* raises KeyError
SweepSummary ==
    /\ pc = "sweep"
    /\ mfIdx > Len(feature_steps)
    /\ IF records = <<>>
       THEN /\ pc' = "crashed"
            /\ err' = "KeyError: max_features"
            /\ UNCHANGED best_mf
       ELSE /\ best_mf' = idxmax(records)
            /\ pc' = "refit"
            /\ err' = err
    /\ UNCHANGED <<dataVars, feature_steps, mfIdx, records, exported, targetVars,
                   cvVars, refitVars>>

\* ----------------------- train_and_export_final_model (train.py:334-403)
\* lines 344-353 and 374
RefitInit ==
    /\ pc = "refit"
    /\ LET t == make_targets(df)
       IN /\ classes' = t.classes
          /\ Y_bin' = t.Y_bin
          /\ Y_cnt' = t.Y_cnt
          /\ class_clfs' = [l \in 1..Len(t.classes) |-> "none"]
          /\ qty_clfs' = [l \in 1..Len(t.classes) |-> NoQ]
    /\ lbl' = 1
    /\ calib' = <<>>
    /\ pc' = "refit_s1"
    /\ UNCHANGED <<err, dataVars, sweepVars, folds, fold, proba, qty_pred,
                   train_metrics, val_metrics, probaLog, qtyLog, lastQ>>

\* lines 355-357
RefitSkip ==
    /\ pc = "refit_s1"
    /\ lbl <= L
    /\ Cardinality(unique_bin(Rows, lbl)) < 2
    /\ lbl' = lbl + 1
    /\ UNCHANGED <<pc, err, dataVars, sweepVars, targetVars, folds, fold, proba,
                   qty_pred, train_metrics, val_metrics, calib, probaLog, qtyLog, lastQ, refitVars>>

\* lines 359-367
RefitCalibCV ==
    /\ pc = "refit_s1"
    /\ lbl <= L
    /\ Cardinality(unique_bin(Rows, lbl)) >= 2
    /\ calib = <<>>
    /\ \E ok \in BOOLEAN : calib' = <<IF ok THEN "cv_ok" ELSE "cv_fail">>
    /\ UNCHANGED <<pc, err, dataVars, sweepVars, targetVars, folds, fold, lbl,
                   proba, qty_pred, train_metrics, val_metrics, probaLog, qtyLog, lastQ, refitVars>>

\* lines 367-369
RefitPrefit ==
    /\ pc = "refit_s1"
    /\ calib = <<"cv_fail">>
    /\ \E ok \in BOOLEAN :
          IF ok
          THEN /\ calib' = Append(calib, "prefit_ok")
               /\ UNCHANGED <<pc, err>>
          ELSE /\ calib' = Append(calib, "prefit_fail")
               /\ pc' = "crashed"
               /\ err' = "ValueError: calibration"
    /\ UNCHANGED <<dataVars, sweepVars, targetVars, folds, fold, lbl, proba,
                   qty_pred, train_metrics, val_metrics, probaLog, qtyLog,
                   lastQ, refitVars>>

\* line 371: class_clfs[label] = calibrator
RefitStore ==
    /\ pc = "refit_s1"
    /\ calib # <<>>
    /\ calib[Len(calib)] \in {"cv_ok", "prefit_ok"}
    /\ class_clfs' = [class_clfs EXCEPT ![lbl] =
                         IF calib[Len(calib)] = "cv_ok" THEN "cv" ELSE "prefit"]
    /\ calib' = <<>>
    /\ lbl' = lbl + 1
    /\ UNCHANGED <<pc, err, dataVars, sweepVars, targetVars, folds, fold, proba,
                   qty_pred, train_metrics, val_metrics, probaLog, qtyLog,
                   lastQ, qty_clfs>>

\* end of the classifier loop (line 354), start of the quantity loop (line 375)
RefitStage1Done ==
    /\ pc = "refit_s1"
    /\ lbl > L
    /\ pc' = "refit_s2"
    /\ lbl' = 1
    /\ UNCHANGED <<err, dataVars, sweepVars, targetVars, folds, fold, proba,
                   qty_pred, train_metrics, val_metrics, calib, probaLog, qtyLog, lastQ, refitVars>>

\* line 380
refit_fits(rows, l) ==
    Cardinality(mask_rows(rows, l)) >= 3 /\ Cardinality(uniq_vals(rows, l)) >= 2

\* line 386: int(uniq_vals[0]), the smallest observed quantity
refit_constant(rows, l) ==
    IF Cardinality(mask_rows(rows, l)) # 0
    THEN CHOOSE v \in uniq_vals(rows, l) : \A w \in uniq_vals(rows, l) : v <= w
    ELSE 0

\* lines 380-383
RefitQtyFit ==
    /\ pc = "refit_s2"
    /\ lbl <= L
    /\ refit_fits(Rows, lbl)
    /\ qty_clfs' = [qty_clfs EXCEPT ![lbl] = [kind |-> "fitted"]]
    /\ lbl' = lbl + 1
    /\ UNCHANGED <<pc, err, dataVars, sweepVars, targetVars, folds, fold, proba,
                   qty_pred, train_metrics, val_metrics, calib, probaLog, qtyLog, lastQ, class_clfs>>

\* lines 384-389
RefitQtyDummy ==
    /\ pc = "refit_s2"
    /\ lbl <= L
    /\ ~refit_fits(Rows, lbl)
    /\ qty_clfs' = [qty_clfs EXCEPT ![lbl] =
                       [kind |-> "constant", constant |-> refit_constant(Rows, lbl)]]
    /\ lbl' = lbl + 1
    /\ UNCHANGED <<pc, err, dataVars, sweepVars, targetVars, folds, fold, proba,
                   qty_pred, train_metrics, val_metrics, calib, probaLog, qtyLog, lastQ, class_clfs>>

\* lines 391-403: the four artifacts are written
RefitExport ==
    /\ pc = "refit_s2"
    /\ lbl > L
    /\ exported' = Append(exported, best_mf)
    /\ pc' = "done"
    /\ UNCHANGED <<err, dataVars, feature_steps, mfIdx, records, best_mf,
                   targetVars, cvVars, refitVars>>

\* ------------------------------------------------------------ specifications
CrossValidate ==
    \/ CVInit
    \/ CVSplit
    \/ Stage1Skip
    \/ Stage1CalibCV
    \/ Stage1Prefit
    \/ Stage1Predict
    \/ Stage1Done
    \/ Stage2Dummy
    \/ Stage2Fit
    \/ Stage2Safeguard
    \/ FoldMetrics

Refit ==
    \/ RefitInit
    \/ RefitSkip
    \/ RefitCalibCV
    \/ RefitPrefit
    \/ RefitStore
    \/ RefitStage1Done
    \/ RefitQtyFit
    \/ RefitQtyDummy
    \/ RefitExport

Next ==
    \/ MainSteps
    \/ SweepIter
    \/ CrossValidate
    \/ SweepRecord
    \/ SweepSummary
    \/ Refit

Spec == Init /\ [][Next]_vars

\* ---- target construction from the raw CSV cells
\* the raw contents of a list column: a list literal, a bare scalar, or text
\* that ast.literal_eval rejects
RawCellsOver(S) ==
    {[kind |-> "list", val |-> v] : v \in SeqsUpTo(S, MaxListLen)}
    \cup {[kind |-> "scalar", val |-> v] : v \in S}
    \cup {[kind |-> "bad", val |-> 0]}

RawDatasets ==
    [1..NRawRows -> {[group |-> 1, target |-> t, quantity |-> q] :
                        t \in RawCellsOver(1..NLabels),
                        q \in RawCellsOver(0..MaxQty)}]

InitTargets ==
    /\ InitRun
    /\ cells \in RawDatasets
    /\ df = <<>>
    /\ raw_steps = <<1>>
    /\ vocab_size = 2
    /\ pc = "load"

NextTargets ==
    \/ MainLoad
    \/ MainSteps
    \/ SweepIter

SpecTargets == InitTargets /\ [][NextTargets]_vars

\* ---- the sweep over configured lists of settings
\* two datasets: one whose folds reach every branch of both stages, and one
\* with a single work order
SweepRich ==
    <<[group |-> 1, labels |-> <<2>>, qtys |-> <<1>>],
      [group |-> 2, labels |-> <<2>>, qtys |-> <<1>>],
      [group |-> 2, labels |-> <<1, 2>>, qtys |-> <<1, 1>>],
      [group |-> 2, labels |-> <<1, 2>>, qtys |-> <<1, 2>>]>>

SweepOneGroup ==
    <<[group |-> 1, labels |-> <<1>>, qtys |-> <<1>>],
      [group |-> 1, labels |-> <<2>>, qtys |-> <<1>>]>>

InitSweep ==
    /\ InitRun
    /\ pc = "steps"
    /\ cells = NoCells
    /\ df \in {SweepRich, SweepOneGroup}
    /\ raw_steps \in SeqsUpTo(1..MaxSetting, MaxSteps) \ {<<>>}
    /\ vocab_size \in 1..(MaxSetting + 1)

SpecSweep == InitSweep /\ [][Next]_vars

\* ================================================================== claims
DistinctGroups == {df[i].group : i \in 1..Len(df)}

\* ------------------------------------------------------------------------
\* C1: after make_targets, for every sample i and every label l of the fitted
\* label space, Y_cnt[i,l] > 0 if and only if Y_bin[i,l] = 1, for every sample
\* the parser can produce.
C1_TargetsRoundTrip ==
    pc = "cv" =>
        \A i \in 1..Len(Y_bin) : \A l \in 1..L :
            (Y_cnt[i][l] > 0) <=> (Y_bin[i][l] = 1)

\* ------------------------------------------------------------------------
\* C2: in the fold plan (K folds, at least K distinct groups) every group id
\* lies in the validation rows of exactly one fold, no fold has a group id on
\* both its training and its validation side, the validation sets are
\* pairwise disjoint and their union is the set of all sample indices.
GroupsOf(S) == {df[i].group : i \in S}

C2_FoldPlan ==
    folds # <<>> =>
        /\ Len(folds) = K_FOLDS
        /\ \A g \in DistinctGroups :
              Cardinality({f \in 1..K_FOLDS : g \in GroupsOf(folds[f].te)}) = 1
        /\ \A f \in 1..K_FOLDS :
              GroupsOf(folds[f].tr) \cap GroupsOf(folds[f].te) = {}
        /\ \A f, h \in 1..K_FOLDS : f # h => folds[f].te \cap folds[h].te = {}
        /\ UNION {folds[f].te : f \in 1..K_FOLDS} = Rows

C2_Witness ==
    /\ folds # <<>>
    /\ \E i, j \in Rows : i # j /\ df[i].group = df[j].group
    /\ pc = "cv_done"

\* ------------------------------------------------------------------------
\* C3: Stage 1 of fold f writes probabilities only into validation rows of
\* fold f, never into its training rows; after all K folds every cell of the
\* probability matrix has been written exactly once, except the cells of a
\* label skipped (fewer than 2 distinct presence values among the training
\* rows) in the fold validating the row, which were never written and hold 0.
ValFold(i) == CHOOSE f \in 1..Len(folds) : i \in folds[f].te

SkippedIn(f, l) == Cardinality({Y_bin[i][l] : i \in folds[f].tr}) < 2

C3_OutOfFoldWrites ==
    (folds # <<>> /\ proba # <<>>) =>
        /\ \A i \in Rows : \A l \in 1..L :
              /\ \A n \in 1..Len(probaLog[i][l]) :
                    /\ i \in folds[probaLog[i][l][n]].te
                    /\ i \notin folds[probaLog[i][l][n]].tr
              /\ proba[i][l] # 0 => probaLog[i][l] # <<>>
        /\ pc = "cv_done" =>
              \A i \in Rows : \A l \in 1..L :
                 IF SkippedIn(ValFold(i), l)
                 THEN probaLog[i][l] = <<>> /\ proba[i][l] = 0
                 ELSE Len(probaLog[i][l]) = 1

C3_Witness ==
    /\ pc = "cv_done"
    /\ \E i \in Rows : \E l \in 1..L : probaLog[i][l] = <<>>
    /\ \E i \in Rows : \E l \in 1..L : Len(probaLog[i][l]) = 1 /\ proba[i][l] > 0

\* ------------------------------------------------------------------------
\* C4: no two folds write the same (row, label) cell of the probability matrix
\* or of the quantity matrix, counting Stage 1, Stage 2 and the safeguard run
\* at the end of the fold; both matrices are entirely 0 before the first write.
C4_NoCellSharedByFolds ==
    proba # <<>> =>
        /\ \A i \in Rows : \A l \in 1..L :
              /\ Cardinality(Range(probaLog[i][l])) <= 1
              /\ Cardinality(Range(qtyLog[i][l])) <= 1
        /\ (\A i \in Rows : \A l \in 1..L :
               probaLog[i][l] = <<>> /\ qtyLog[i][l] = <<>>)
              => (proba = Zeros /\ qty_pred = Zeros)

\* ------------------------------------------------------------------------
\* C5: once the safeguard has run, every label among a row's top-K labels by
\* probability has predicted quantity >= 1; in particular in the matrices
\* cross_validate_transformed returns, for every row and every sequence of
\* Stage 1 / Stage 2 outcomes.
C5_TopKQuantityPositive ==
    pc \in {"metrics", "cv_done"} =>
        \A i \in Rows : \A l \in topk(proba[i], TOP_K) : qty_pred[i][l] >= 1

\* a recommended label whose Stage 2 prediction of the last fold was raised
\* from 0 by the safeguard, next to an unrecommended label left at 0
C5_Witness ==
    /\ pc = "cv_done"
    /\ \E i \in folds[K_FOLDS].te : \E l \in topk(proba[i], TOP_K) :
          /\ Len(qtyLog[i][l]) >= 2
          /\ qtyLog[i][l][Len(qtyLog[i][l])] = K_FOLDS
          /\ qtyLog[i][l][Len(qtyLog[i][l]) - 1] = K_FOLDS
          /\ qty_pred[i][l] = 1
          /\ \E m \in 1..L : m \notin topk(proba[i], TOP_K) /\ qty_pred[i][m] = 0

\* ------------------------------------------------------------------------
\* C6: for every label, in each fold (over the fold's training rows) and in
\* the final refit (over all rows): when the rows with positive quantity are
\* fewer than 3 or share one quantity value, the quantity model is a constant
\* predictor whose value is the most frequent quantity among those rows, or 0
\* when there are none, predicted for every row it is applied to; otherwise a
\* fitted model is used.
Positive(rows, l) == {i \in rows : Y_cnt[i][l] > 0}

Frequency(rows, l, v) == Cardinality({i \in Positive(rows, l) : Y_cnt[i][l] = v})

Modes(rows, l) ==
    {Y_cnt[i][l] : i \in
        {j \in Positive(rows, l) :
            \A k \in Positive(rows, l) :
                Frequency(rows, l, Y_cnt[k][l]) <= Frequency(rows, l, Y_cnt[j][l])}}

Sparse(rows, l) ==
    \/ Cardinality(Positive(rows, l)) < 3
    \/ \A i, j \in Positive(rows, l) : Y_cnt[i][l] = Y_cnt[j][l]

ConstantAsClaimed(m, rows, l) ==
    /\ m.kind = "constant"
    /\ IF Positive(rows, l) = {} THEN m.constant = 0
       ELSE m.constant \in Modes(rows, l)

C6_ConstantPredictor ==
    /\ lastQ.kind # "none" =>
          IF Sparse(folds[lastQ.fold].tr, lastQ.lbl)
          THEN /\ ConstantAsClaimed(lastQ, folds[lastQ.fold].tr, lastQ.lbl)
               /\ DOMAIN lastQ.pred = folds[lastQ.fold].te
               /\ \A i \in DOMAIN lastQ.pred : lastQ.pred[i] = lastQ.constant
          ELSE lastQ.kind = "fitted"
    /\ \A l \in DOMAIN qty_clfs :
          qty_clfs[l].kind # "none" =>
             IF Sparse(Rows, l)
             THEN ConstantAsClaimed(qty_clfs[l], Rows, l)
             ELSE qty_clfs[l].kind = "fitted"

\* exactly two positive training rows, both with the largest quantity
C6_Witness ==
    /\ lastQ.kind = "constant"
    /\ Cardinality(Positive(folds[lastQ.fold].tr, lastQ.lbl)) = 2
    /\ \A i \in Positive(folds[lastQ.fold].tr, lastQ.lbl) :
          Y_cnt[i][lastQ.lbl] = MaxQty
    /\ lastQ.constant = MaxQty
    /\ \A i \in folds[lastQ.fold].te : qty_pred[i][lastQ.lbl] = MaxQty

\* ------------------------------------------------------------------------
\* C7: recall_at_k averages |truth & predicted| / |truth| over the rows with
\* non-empty truth only (0 when there are none); partial_coverage_score
\* averages |truth & predicted| / max(1, |truth|) over all rows: a row with
\* empty truth adds nothing to recall (numerator or count) and adds exactly 0
\* to partial coverage while being counted in its denominator.
Truth(i) == {l \in 1..L : Y_bin[i][l] = 1}

NonEmpty(rows) == {i \in rows : Truth(i) # {}}

RowScore(i) ==
    Rat(Cardinality(Truth(i) \cap topk(proba[i], TOP_K)), Cardinality(Truth(i)))

RECURSIVE ScoreSum(_)
ScoreSum(S) ==
    IF S = {} THEN <<0, 1>>
    ELSE LET i == CHOOSE x \in S : TRUE
         IN RatAdd(RowScore(i), ScoreSum(S \ {i}))

\* recall * |rows with truth| = partial coverage * |rows|, both being the sum
\* of the scores of the rows with truth
SameScoreSum(m, rows) ==
    /\ m.recall[1] * Cardinality(NonEmpty(rows)) * m.partial_cov[2]
          = m.partial_cov[1] * Cardinality(rows) * m.recall[2]
    /\ NonEmpty(rows) = {} => (m.recall = <<0, 1>> /\ m.partial_cov = <<0, 1>>)

C7_EmptyTruthRows ==
    /\ \A n \in 1..Len(val_metrics) :
          LET rows == folds[val_metrics[n][1]].te
              m == val_metrics[n][2]
          IN /\ SameScoreSum(m, rows)
             /\ m.recall = IF NonEmpty(rows) = {} THEN <<0, 1>>
                           ELSE RatDiv(ScoreSum(NonEmpty(rows)),
                                       Cardinality(NonEmpty(rows)))
             /\ m.partial_cov = RatDiv(ScoreSum(NonEmpty(rows)), Cardinality(rows))
    /\ \A n \in 1..Len(train_metrics) :
          SameScoreSum(train_metrics[n][2], folds[train_metrics[n][1]].tr)

\* a validation fold with a row of empty truth next to a row whose truth is hit
C7_Witness ==
    \E n \in 1..Len(val_metrics) :
        LET rows == folds[val_metrics[n][1]].te
            m == val_metrics[n][2]
        IN /\ rows \ NonEmpty(rows) # {}
           /\ m.recall # <<0, 1>>
           /\ m.recall # m.partial_cov

\* ------------------------------------------------------------------------
\* C8: when the distinct group ids are fewer than K, cross-validation fails
\* with a configuration error that halts the run: no fold is processed, no
\* cell of either matrix is written, no fold or aggregate metrics are
\* recorded, and no final refit or export takes place.
C8_InsufficientGroups ==
    Cardinality(DistinctGroups) < K_FOLDS =>
        /\ pc \in {"steps", "sweep", "cv", "split", "crashed"}
        /\ pc = "crashed" => err = "ValueError: n_splits"
        /\ pc # "crashed" => err = ""
        /\ folds = <<>> /\ fold = 0
        /\ proba \in {<<>>, Zeros} /\ qty_pred \in {<<>>, Zeros}
        /\ probaLog \in {<<>>, NoWrites} /\ qtyLog \in {<<>>, NoWrites}
        /\ train_metrics = <<>> /\ val_metrics = <<>>
        /\ records = <<>> /\ best_mf = 0
        /\ class_clfs = <<>> /\ qty_clfs = <<>> /\ exported = <<>>

C8_Witness ==
    /\ Cardinality(DistinctGroups) < K_FOLDS
    /\ pc = "crashed"
    /\ proba = Zeros /\ L > 0

\* ------------------------------------------------------------------------
\* C9: for every non-skipped label of Stage 1 (in a fold and in the refit) the
\* prefit calibration is attempted if and only if the cross-validated one was
\* attempted first and failed; after a successful cross-validated calibration
\* the prefit path is not taken; a failing prefit calibration is fatal: the
\* run ends there, the label is not treated as skipped and no probability is
\* written for that label in that fold.
C9_Logs ==
    /\ calib \in {<<>>, <<"cv_ok">>, <<"cv_fail">>, <<"cv_fail", "prefit_ok">>,
                  <<"cv_fail", "prefit_fail">>}
    /\ calib # <<>> => pc \in {"stage1", "refit_s1", "crashed"}
    /\ calib = <<"cv_fail", "prefit_fail">> =>
          /\ pc = "crashed"
          /\ err = "ValueError: calibration"
          /\ folds # <<>> => \A i \in Rows : fold \notin Range(probaLog[i][lbl])
          /\ folds = <<>> => class_clfs[lbl] = "none"

C9_Steps ==
    /\ calib = <<"cv_fail">> =>
          calib' \in {<<"cv_fail", "prefit_ok">>, <<"cv_fail", "prefit_fail">>}
    /\ (calib' # calib /\ Len(calib') = 2) => calib = <<"cv_fail">>
    /\ calib = <<"cv_ok">> =>
          /\ calib' = <<>>
          /\ lbl' = lbl + 1
          /\ pc = "stage1" =>
                \A i \in folds[fold].te : probaLog'[i][lbl] = Append(probaLog[i][lbl], fold)
          /\ pc = "refit_s1" => class_clfs'[lbl] = "cv"
    /\ pc # "crashed"

C9_CalibrationFallback == []C9_Logs /\ [][C9_Steps]_vars

\* the prefit calibration failed in the last fold, after earlier folds wrote
C9_Witness ==
    /\ calib = <<"cv_fail", "prefit_fail">>
    /\ pc = "crashed"
    /\ fold = K_FOLDS
    /\ \E i \in Rows : \E l \in 1..L : probaLog[i][l] # <<>>

\* ------------------------------------------------------------------------
\* C10: for every configured list of settings the sweep runs the full
\* cross-validation for each configured setting and records its fold-averaged
\* metrics keyed by that setting; then, after every setting's run, it selects
\* a setting whose mean recall is >= that of every other and triggers exactly
\* one final refit at it.  (Stated for the runs in which no cross-validation
\* raised.)
C10_SweepRunsEverySetting ==
    (pc \in {"done", "crashed"}
        /\ err \notin {"ValueError: n_splits", "ValueError: calibration"}) =>
        /\ Len(records) = Len(raw_steps)
        /\ \A n \in 1..Len(records) : records[n].max_features = raw_steps[n]
        /\ Len(exported) = 1
        /\ exported[1] = best_mf
        /\ \E n \in 1..Len(records) :
              /\ records[n].max_features = best_mf
              /\ \A m \in 1..Len(records) : RatLeq(records[m].recall, records[n].recall)

=============================================================================
